---- MODULE Spec2Model ----
(***************************************************************************)
(* gitlint/git.py: which lines of which files were modified, derived from  *)
(* the output of git status, git diff-tree, git log and git blame.         *)
(*                                                                         *)
(* Text and bytes are sequences of one-character strings.  A Python value  *)
(* is a record [kind, val]: kind is "None", "list", "dict", "str" or       *)
(* "raise" (the call ended with the exception named in val).               *)
(***************************************************************************)
EXTENDS Naturals, Sequences, FiniteSets, TLC

(***************************************************************************)
(* Bounds of the model.                                                    *)
(***************************************************************************)
\* longest blame report (entries) git answers with
MaxBlame == 2
\* longest commits argument / longest git log answer
MaxCommits == 2
\* longest git status answer (lines)
MaxStatus == 2
\* longest git diff-tree answer (lines)
MaxDiff == 1

\* '0' * 40: the length of a full SHA1 in hexadecimal
ShaLen == 40

(***************************************************************************)
(* Python values.                                                          *)
(***************************************************************************)
None == [kind |-> "None", val |-> <<>>]
List(s) == [kind |-> "list", val |-> s]
Dict(d) == [kind |-> "dict", val |-> d]
Str(s) == [kind |-> "str", val |-> s]
Raise(e) == [kind |-> "raise", val |-> <<e>>]

\* Python truth value of an object: None, [] and {} are false.
Truthy(v) ==
    CASE v.kind = "None" -> FALSE
      [] v.kind = "list" -> v.val # <<>>
      [] v.kind = "dict" -> DOMAIN v.val # {}
      [] v.kind = "str" -> v.val # <<>>
      [] OTHER -> TRUE

(***************************************************************************)
(* Text primitives.                                                        *)
(***************************************************************************)
Rep(c, n) == [i \in 1..n |-> c]

Whitespace == {" ", "\t", "\n", "\r", "\f"}
Digits == <<"0", "1", "2", "3", "4", "5", "6", "7", "8", "9">>
IsDigit(c) == \E i \in 1..10 : Digits[i] = c
DigitVal(c) == (CHOOSE i \in 1..10 : Digits[i] = c) - 1

startswith(s, p) == Len(s) >= Len(p) /\ SubSeq(s, 1, Len(p)) = p
endswith(s, p) == Len(s) >= Len(p) /\ SubSeq(s, Len(s) - Len(p) + 1, Len(s)) = p

\* bytes.strip(): leading and trailing whitespace removed
RECURSIVE lstrip(_)
lstrip(s) == IF s # <<>> /\ Head(s) \in Whitespace THEN lstrip(Tail(s)) ELSE s
RECURSIVE rstrip(_)
rstrip(s) ==
    IF s # <<>> /\ s[Len(s)] \in Whitespace THEN rstrip(SubSeq(s, 1, Len(s) - 1)) ELSE s
strip(s) == rstrip(lstrip(s))

\* s.split(sep) for a one-character sep: always at least one element,
\* ''.split(sep) is [''] and a trailing sep gives a trailing ''.
split(s, sep) ==
    LET at == {i \in 1..Len(s) : s[i] = sep}
        n == Cardinality(at)
        \* the position of the k-th separator; 0 before the first, Len(s) + 1
        \* after the last
        Pos(k) == IF k = 0 THEN 0
                  ELSE IF k > n THEN Len(s) + 1
                  ELSE CHOOSE i \in at : Cardinality({j \in at : j < i}) = k - 1
    IN [k \in 1..(n + 1) |-> SubSeq(s, Pos(k - 1) + 1, Pos(k) - 1)]

\* os.linesep
linesep == "\n"

\* int(b'12')
RECURSIVE int(_)
int(s) == IF s = <<>> THEN 0 ELSE 10 * int(SubSeq(s, 1, Len(s) - 1)) + DigitVal(s[Len(s)])

\* str(n) for n >= 0, as git prints a line number
RECURSIVE Decimal(_)
Decimal(n) == IF n < 10 THEN <<Digits[n + 1]>> ELSE Decimal(n \div 10) \o <<Digits[(n % 10) + 1]>>

\* os.path.isabs / os.path.join (posixpath)
isabs(p) == startswith(p, <<"/">>)
join(a, b) ==
    IF startswith(b, <<"/">>) THEN b
    ELSE IF a = <<>> \/ endswith(a, <<"/">>) THEN a \o b
    ELSE a \o <<"/">> \o b

(***************************************************************************)
(* Regular expressions, as far as git.py uses them.  A pattern is a        *)
(* sequence of pieces:                                                     *)
(*   [k |-> "alt", g, alts]   (?P<g>a1|a2|...) of literal alternatives     *)
(*   [k |-> "lit", s]         the literal text s                           *)
(*   [k |-> "space"]          \s                                           *)
(*   [k |-> "digits", g]      (?P<g>\d+), or (\d+) when g = ""             *)
(*   [k |-> "rest", g]        (?P<g>.+) as the last piece                  *)
(* In the patterns of git.py the alternatives of a group have one length   *)
(* and differ, \d+ is followed by a non-digit or by the end, and .+ is     *)
(* last: the leftmost greedy match below is the match re finds.            *)
(***************************************************************************)
Alt(g, alts) == [k |-> "alt", g |-> g, alts |-> alts, s |-> <<>>]
Lit(s) == [k |-> "lit", g |-> "", alts |-> <<>>, s |-> s]
Space == [k |-> "space", g |-> "", alts |-> <<>>, s |-> <<>>]
DigitsPlus(g) == [k |-> "digits", g |-> g, alts |-> <<>>, s |-> <<>>]
Rest(g) == [k |-> "rest", g |-> g, alts |-> <<>>, s |-> <<>>]

NoMatch == [ok |-> FALSE, caps |-> <<>>]
Bind(caps, g, text) ==
    IF g = "" THEN caps
    ELSE [n \in DOMAIN caps \cup {g} |-> IF n = g THEN text ELSE caps[n]]

AtPos(line, pos, p) == pos + Len(p) - 1 <= Len(line) /\ SubSeq(line, pos, pos + Len(p) - 1) = p

\* the end of the longest run of digits starting at pos (pos - 1 if none)
RECURSIVE DigitsEnd(_, _)
DigitsEnd(line, pos) ==
    IF pos <= Len(line) /\ IsDigit(line[pos]) THEN DigitsEnd(line, pos + 1) ELSE pos - 1

\* the end of the longest run of characters other than newline
RECURSIVE DotEnd(_, _)
DotEnd(line, pos) ==
    IF pos <= Len(line) /\ line[pos] # "\n" THEN DotEnd(line, pos + 1) ELSE pos - 1

RECURSIVE MatchFrom(_, _, _, _, _)
MatchFrom(line, pos, pat, i, caps) ==
    IF i > Len(pat) THEN [ok |-> TRUE, caps |-> caps]
    ELSE LET p == pat[i] IN
      CASE p.k = "alt" ->
             IF \E j \in 1..Len(p.alts) : AtPos(line, pos, p.alts[j])
             THEN LET j == CHOOSE j \in 1..Len(p.alts) :
                             /\ AtPos(line, pos, p.alts[j])
                             /\ \A h \in 1..(j - 1) : ~AtPos(line, pos, p.alts[h])
                      a == p.alts[j]
                  IN MatchFrom(line, pos + Len(a), pat, i + 1, Bind(caps, p.g, a))
             ELSE NoMatch
        [] p.k = "lit" ->
             IF AtPos(line, pos, p.s)
             THEN MatchFrom(line, pos + Len(p.s), pat, i + 1, caps)
             ELSE NoMatch
        [] p.k = "space" ->
             IF pos <= Len(line) /\ line[pos] \in Whitespace
             THEN MatchFrom(line, pos + 1, pat, i + 1, caps)
             ELSE NoMatch
        [] p.k = "digits" ->
             LET e == DigitsEnd(line, pos) IN
             IF e >= pos
             THEN MatchFrom(line, e + 1, pat, i + 1, Bind(caps, p.g, SubSeq(line, pos, e)))
             ELSE NoMatch
        [] p.k = "rest" ->
             LET e == DotEnd(line, pos) IN
             IF e >= pos
             THEN MatchFrom(line, e + 1, pat, i + 1, Bind(caps, p.g, SubSeq(line, pos, e)))
             ELSE NoMatch

\* the pattern applied at the start of the line
Match(line, pat) == MatchFrom(line, 1, pat, 1, <<>>)

(***************************************************************************)
(* gitlint.utils.filter_lines: the requested groups of every line that     *)
(* matches, lines that do not match skipped; one group gives the bare      *)
(* value, several give a tuple in the requested order.                     *)
(***************************************************************************)
RECURSIVE filter_lines(_, _, _)
filter_lines(lines, pat, groups) ==
    IF lines = <<>> THEN <<>>
    ELSE LET m == Match(Head(lines), pat)
             rest == filter_lines(Tail(lines), pat, groups)
         IN IF ~m.ok THEN rest
            ELSE IF Len(groups) = 1 THEN <<m.caps[groups[1]]>> \o rest
            ELSE <<[j \in 1..Len(groups) |-> m.caps[groups[j]]]>> \o rest

(***************************************************************************)
(* What git answers.  A reply is [rc, data]: the exit status and, when it  *)
(* is 0, what git reports, formatted below into the text the program       *)
(* reads.  The oracle git is a record: installed (the executable is on     *)
(* the path), and the reply to each query.                                 *)
(***************************************************************************)
Zero == Rep("0", ShaLen)
ShaA == Rep("a", ShaLen)
ShaB == Rep("b", ShaLen)
CommitIds == {ShaA, ShaB}
Revs == {Zero, ShaA, ShaB}

Ok(data) == [rc |-> 0, data |-> data]
Failed == [rc |-> 128, data |-> <<>>]

RECURSIVE Concat(_)
Concat(ss) == IF ss = <<>> THEN <<>> ELSE Head(ss) \o Concat(Tail(ss))

\* git rev-parse: one line
FormatRevParse(text) == text \o <<"\n">>
\* git log --pretty=%H: one hash per line
FormatLog(commits) == Concat([i \in 1..Len(commits) |-> commits[i] \o <<"\n">>])
\* git status --porcelain: XY, a space, the path (quoted by git when it has
\* special characters; a rename is "old -> new")
FormatStatus(es) == Concat([i \in 1..Len(es) |-> es[i].xy \o <<" ">> \o es[i].path \o <<"\n">>])
\* git diff-tree --name-status: the status letter(s), a tab, the path(s)
FormatDiffTree(es) == Concat([i \in 1..Len(es) |-> es[i].st \o <<"\t">> \o es[i].path \o <<"\n">>])

\* git blame --porcelain: per line of the file a header
\* "<sha> <source line> <result line>[ <lines in group>]", the commit's details
\* the first time the commit appears, and the line itself after a tab.
Continues(es, i) ==
    /\ i > 1
    /\ es[i].rev = es[i - 1].rev
    /\ es[i].orig = es[i - 1].orig + 1
    /\ es[i].final = es[i - 1].final + 1
RECURSIVE GroupLen(_, _)
GroupLen(es, i) == IF i < Len(es) /\ Continues(es, i + 1) THEN 1 + GroupLen(es, i + 1) ELSE 1
\* the text of the file's line: a line of the file may itself read like a
\* header of the report
LineText(e) ==
    IF e.final = 5 THEN Zero \o <<" ">> \o Decimal(e.final + 1) \o <<" ">> \o Decimal(e.final + 1)
    ELSE <<"x">>
BlameEntry(es, i) ==
    LET e == es[i] IN
    e.rev \o <<" ">> \o Decimal(e.orig) \o <<" ">> \o Decimal(e.final)
      \o (IF Continues(es, i) THEN <<>> ELSE <<" ">> \o Decimal(GroupLen(es, i)))
      \o <<"\n">>
      \o (IF \E h \in 1..(i - 1) : es[h].rev = e.rev THEN <<>>
          ELSE <<"a", "u", "t", "h", "o", "r", " ", "A", "\n">>
               \o <<"f", "i", "l", "e", "n", "a", "m", "e", " ", "f", "\n">>)
      \o <<"\t">> \o LineText(e) \o <<"\n">>
FormatBlame(es) == Concat([i \in 1..Len(es) |-> BlameEntry(es, i)])

(***************************************************************************)
(* subprocess.check_output(['git', ...]): the output, or the exception     *)
(* FileNotFoundError (no executable) or CalledProcessError (exit # 0).     *)
(* run is the entry of the log of commands the call has started.           *)
(***************************************************************************)
check_output(git, cmd, arg, reply, out) ==
    IF ~git.installed
    THEN [exc |-> "FileNotFoundError", out |-> <<>>,
          run |-> [cmd |-> cmd, arg |-> arg, reply |-> Failed]]
    ELSE IF reply.rc # 0
    THEN [exc |-> "CalledProcessError", out |-> <<>>,
          run |-> [cmd |-> cmd, arg |-> arg, reply |-> Failed]]
    ELSE [exc |-> "none", out |-> out, run |-> [cmd |-> cmd, arg |-> arg, reply |-> reply]]

\* bytes.decode('utf-8'): a byte that is no UTF-8 raises
BadByte == "0xFF"
Undecodable(s) == \E i \in 1..Len(s) : s[i] = BadByte

(***************************************************************************)
(* The three lookups.  Each returns [ret, cmds].                           *)
(***************************************************************************)
\* what the lookups' except clause catches
LookupCatches(exc) == exc = "CalledProcessError"

repository_root(git) ==
    LET r == check_output(git, "rev-parse --show-toplevel", <<>>, git.toplevel,
                          FormatRevParse(git.toplevel.data))
        root == strip(r.out)
    IN [cmds |-> <<r.run>>,
        ret |-> IF r.exc # "none"
                THEN (IF LookupCatches(r.exc) THEN None ELSE Raise(r.exc))
                ELSE IF Undecodable(root) THEN Raise("UnicodeDecodeError")
                ELSE Str(root)]

last_commit(git) ==
    LET r == check_output(git, "rev-parse HEAD", <<>>, git.head,
                          FormatRevParse(git.head.data))
        root == strip(r.out)
    IN [cmds |-> <<r.run>>,
        ret |-> IF r.exc # "none"
                THEN (IF LookupCatches(r.exc) THEN None ELSE Raise(r.exc))
                ELSE IF Undecodable(root) THEN Raise("UnicodeDecodeError")
                ELSE Str(root)]

commits_head_to_main(master, git) ==
    LET r == check_output(git, "log", master, git.log, FormatLog(git.log.data))
        commits == strip(r.out)
    IN [cmds |-> <<r.run>>,
        ret |-> IF r.exc # "none"
                THEN (IF LookupCatches(r.exc) THEN List(<<>>) ELSE Raise(r.exc))
                ELSE IF Undecodable(commits) THEN Raise("UnicodeDecodeError")
                ELSE List(split(commits, "\n"))]

(***************************************************************************)
(* modified_files                                                          *)
(***************************************************************************)
_remove_filename_quotes(filename) ==
    IF startswith(filename, <<"\"">>) /\ endswith(filename, <<"\"">>)
    THEN SubSeq(filename, 2, Len(filename) - 1)
    ELSE filename

\* dict(pairs): a later pair replaces an earlier one with the same key
RECURSIVE dict(_)
dict(pairs) ==
    IF pairs = <<>> THEN <<>>
    ELSE LET d == dict(SubSeq(pairs, 1, Len(pairs) - 1))
             p == pairs[Len(pairs)]
         IN [k \in DOMAIN d \cup {p[1]} |-> IF k = p[1] THEN p[2] ELSE d[k]]

\* a variant of update: an entry already present is kept
update_keeping(a, b) ==
    [k \in DOMAIN a \cup DOMAIN b |-> IF k \in DOMAIN a THEN a[k] ELSE b[k]]

\* a.update(b)
update(a, b) == [k \in DOMAIN a \cup DOMAIN b |-> IF k \in DOMAIN b THEN b[k] ELSE a[k]]

\* a variant of modes: '??' is listed whatever tracked_only is
modes_with_untracked(tracked_only) ==
    << <<"M", " ">>, <<" ", "M">>, <<"A", " ">>, <<"A", "M">>, <<"M", "M">>, <<"?", "?">> >>

\* modes, and r'\?\?' (the text "??") unless tracked_only
modes(tracked_only) ==
    << <<"M", " ">>, <<" ", "M">>, <<"A", " ">>, <<"A", "M">>, <<"M", "M">> >>
      \o (IF tracked_only THEN <<>> ELSE << <<"?", "?">> >>)

\* r'(?P<mode>%s) (?P<filename>.+)' % modes_str
StatusPattern(tracked_only) ==
    <<Alt("mode", modes(tracked_only)), Lit(<<" ">>), Rest("filename")>>

\* r'(?P<mode>A|M)\s(?P<filename>.+)'
DiffTreePattern == <<Alt("mode", << <<"A">>, <<"M">> >>), Space, Rest("filename")>>

\* the mode a commit's file gets: the letter and a space
CommitMode(mode) == mode \o <<" ">>

_modified_files_with_commit(root, commit, git) ==
    LET reply == IF commit \in DOMAIN git.difftree THEN git.difftree[commit] ELSE Failed
        r == check_output(git, "diff-tree", commit, reply, FormatDiffTree(reply.data))
        status_lines == split(r.out, linesep)
        modified_file_status == filter_lines(status_lines, DiffTreePattern, <<"filename", "mode">>)
    IN [cmds |-> <<r.run>>,
        ret |-> IF r.exc # "none" THEN Raise(r.exc)
                ELSE IF Undecodable(r.out) THEN Raise("UnicodeDecodeError")
                ELSE Dict(dict([i \in 1..Len(modified_file_status) |->
                       <<join(root, _remove_filename_quotes(modified_file_status[i][1])),
                         CommitMode(modified_file_status[i][2])>>]))]

\* for commit in commits: list_of_modified.update(...), from the i-th commit
RECURSIVE CommitsLoop(_, _, _, _, _, _)
CommitsLoop(root, commits, git, i, list_of_modified, cmds) ==
    IF i > Len(commits) THEN [cmds |-> cmds, ret |-> Dict(list_of_modified)]
    ELSE LET c == _modified_files_with_commit(root, commits[i], git) IN
         IF c.ret.kind = "raise" THEN [cmds |-> cmds \o c.cmds, ret |-> c.ret]
         ELSE CommitsLoop(root, commits, git, i + 1,
                          update(list_of_modified, c.ret.val), cmds \o c.cmds)

\* a variant of RootAccepted: only the empty root is refused
RootAcceptedNonEmpty(root) == root # <<>>

\* assert os.path.isabs(root)
RootAccepted(root) == isabs(root)

\* if commits:
CommitsMode(commits) == Truthy(commits)

modified_files(root, tracked_only, commits, git) ==
    IF ~RootAccepted(root) THEN [cmds |-> <<>>, ret |-> Raise("AssertionError")]
    ELSE IF CommitsMode(commits) THEN CommitsLoop(root, commits.val, git, 1, <<>>, <<>>)
    ELSE
      LET r == check_output(git, "status", <<>>, git.status, FormatStatus(git.status.data))
          status_lines == split(r.out, linesep)
          modified_file_status ==
              filter_lines(status_lines, StatusPattern(tracked_only), <<"filename", "mode">>)
      IN [cmds |-> <<r.run>>,
          ret |-> IF r.exc # "none" THEN Raise(r.exc)
                  ELSE IF Undecodable(r.out) THEN Raise("UnicodeDecodeError")
                  ELSE Dict(dict([i \in 1..Len(modified_file_status) |->
                         <<join(root, _remove_filename_quotes(modified_file_status[i][1])),
                           modified_file_status[i][2]>>]))]

(***************************************************************************)
(* modified_lines and modified_lines_for_pr                                *)
(***************************************************************************)
\* a variant of ModifiedModes: 'AM' counts as a modification
ModifiedModesWithAM == { <<"M", " ">>, <<" ", "M">>, <<"M", "M">>, <<"A", "M">> }

\* ('M ', ' M', 'MM')
ModifiedModes == { <<"M", " ">>, <<" ", "M">>, <<"M", "M">> }

\* a variant of BlameCommit: the all-zero id is one character short
BlameCommitShort(commit) == IF commit.kind = "None" THEN Rep("0", ShaLen - 1) ELSE commit.val

\* if commit is None: commit = '0' * 40
BlameCommit(commit) == IF commit.kind = "None" THEN Zero ELSE commit.val

\* commit + br' (?P<line>\d+) (\d+)'
BlamePattern(commit) ==
    <<Lit(commit), Lit(<<" ">>), DigitsPlus("line"), Lit(<<" ">>), DigitsPlus("")>>

\* list(map(int, modified_line_numbers))
LineNumbers(modified_line_numbers) ==
    [i \in 1..Len(modified_line_numbers) |-> int(modified_line_numbers[i])]

modified_lines(filename, extra_data, commit, git) ==
    IF extra_data.kind = "None" THEN [cmds |-> <<>>, ret |-> List(<<>>)]
    ELSE IF extra_data.val \notin ModifiedModes THEN [cmds |-> <<>>, ret |-> None]
    ELSE
      LET r == check_output(git, "blame", filename, git.blame, FormatBlame(git.blame.data))
          blame_lines == split(r.out, linesep)
          modified_line_numbers ==
              filter_lines(blame_lines, BlamePattern(BlameCommit(commit)), <<"line">>)
      IN [cmds |-> <<r.run>>,
          ret |-> IF r.exc # "none" THEN Raise(r.exc)
                  ELSE List(LineNumbers(modified_line_numbers))]

\* a variant of Accumulate: a line number already collected is not added again
AccumulateNew(line_numbers_map, result) ==
    IF Truthy(result)
    THEN line_numbers_map \o
         SelectSeq(result.val, LAMBDA n : \A i \in 1..Len(line_numbers_map) : line_numbers_map[i] # n)
    ELSE line_numbers_map

\* if result: line_numbers_map = line_numbers_map + result
Accumulate(line_numbers_map, result) ==
    IF Truthy(result) THEN line_numbers_map \o result.val ELSE line_numbers_map

\* the commits list object after the loop: the function only reads it
CommitsAfter(commits, line_numbers_map) == commits

\* what the function returns for the accumulated list
PrReturn(line_numbers_map) == List(line_numbers_map)

RECURSIVE PrLoop(_, _, _, _, _, _, _)
PrLoop(filename, extra_data, commits, git, i, line_numbers_map, cmds) ==
    IF i > Len(commits)
    THEN [cmds |-> cmds, ret |-> PrReturn(line_numbers_map),
          commits |-> CommitsAfter(commits, line_numbers_map)]
    ELSE LET result == modified_lines(filename, extra_data, Str(commits[i]), git) IN
         IF result.ret.kind = "raise"
         THEN [cmds |-> cmds \o result.cmds, ret |-> result.ret, commits |-> commits]
         ELSE PrLoop(filename, extra_data, commits, git, i + 1,
                     Accumulate(line_numbers_map, result.ret), cmds \o result.cmds)

modified_lines_for_pr(filename, extra_data, commits, git) ==
    PrLoop(filename, extra_data, commits, git, 1, <<>>, <<>>)

(***************************************************************************)
(* The arguments callers pass and the answers git gives.                   *)
(***************************************************************************)
\* all sequences over S of length at most n
RECURSIVE SeqsUpTo(_, _)
SeqsUpTo(S, n) ==
    IF n = 0 THEN {<<>>}
    ELSE LET shorter == SeqsUpTo(S, n - 1)
         IN shorter \cup {Append(q, x) : q \in shorter, x \in S}

Text_f == <<"f">>
Text_g == <<"g">>
Quoted_a_b == <<"\"", "a", " ", "b", "\"">>
Renamed_g_f == <<"g", " ", "-", ">", " ", "f">>

Roots == { <<"/", "r">>, <<"r", "/", "p">>, <<>> }
Masters == { <<"m", "a", "i", "n">>, <<"d", "e", "v">> }
FileNames == { Text_f, Text_g }

ToplevelReplies ==
    {Failed} \cup {Ok(t) : t \in { <<"/", "r">>, <<"/", "r", " ", "x">>, <<"/", BadByte>> }}
HeadReplies == {Failed} \cup {Ok(c) : c \in CommitIds}
LogReplies == {Failed} \cup {Ok(cs) : cs \in SeqsUpTo(CommitIds, MaxCommits)}

\* one line of git status --porcelain
StatusEntries ==
    { [xy |-> <<"M", " ">>, path |-> Text_f],
      [xy |-> <<" ", "M">>, path |-> Text_g],
      [xy |-> <<"A", " ">>, path |-> Quoted_a_b],
      [xy |-> <<"A", "M">>, path |-> Text_f],
      [xy |-> <<"M", "M">>, path |-> Text_g],
      [xy |-> <<"?", "?">>, path |-> Text_f],
      [xy |-> <<"D", " ">>, path |-> Text_f],
      [xy |-> <<" ", "D">>, path |-> Text_g],
      [xy |-> <<"R", " ">>, path |-> Renamed_g_f],
      [xy |-> <<"M", "D">>, path |-> Text_g] }
StatusReplies == {Failed} \cup {Ok(es) : es \in SeqsUpTo(StatusEntries, MaxStatus)}

\* one line of git diff-tree --name-status
DiffTreeEntries ==
    { [st |-> <<"A">>, path |-> Text_f],
      [st |-> <<"M">>, path |-> Text_f],
      [st |-> <<"M">>, path |-> Text_g],
      [st |-> <<"A">>, path |-> Quoted_a_b],
      [st |-> <<"R", "1", "0", "0">>, path |-> <<"g", "\t", "f">>] }
DiffTreeReplies == {Failed} \cup {Ok(es) : es \in SeqsUpTo(DiffTreeEntries, MaxDiff)}

\* the commits arguments: None, [], lists of hashes, and [''] (what
\* commits_head_to_main gives for an empty log)
CommitsArgs ==
    {None} \cup {List(cs) : cs \in SeqsUpTo(CommitIds, MaxCommits)} \cup {List(<< <<>> >>)}

\* the line numbers a blame report shows
LineNos == {5, 12, 47}
BlameEntries == [rev : Revs, orig : LineNos, final : LineNos]
\* e can follow the entries es in a report of git blame: the report lists the
\* file's lines in order; a line not yet committed (the all-zero revision) has
\* its own number as source line; the lines one commit gave keep their order.
Follows(es, e) ==
    /\ e.rev = Zero => e.orig = e.final
    /\ \A i \in 1..Len(es) :
         /\ es[i].final < e.final
         /\ es[i].rev = e.rev => es[i].orig < e.orig
RECURSIVE BlameReports(_)
BlameReports(n) ==
    IF n = 0 THEN {<<>>}
    ELSE LET shorter == BlameReports(n - 1)
         IN shorter \cup {Append(p[1], p[2]) :
                            p \in {q \in shorter \X BlameEntries : Follows(q[1], q[2])}}
BlameReplies == {Failed} \cup {Ok(es) : es \in BlameReports(MaxBlame)}
\* git is asked about the commits the caller names
CommitsNamed(commits) ==
    IF commits.kind = "list" THEN {commits.val[i] : i \in 1..Len(commits.val)} \cap CommitIds
    ELSE {}

\* extra_data: None, or a status of modified_files
StatusArgs ==
    {None} \cup {Str(m) : m \in { <<"M", " ">>, <<" ", "M">>, <<"M", "M">>,
                                 <<"A", " ">>, <<"A", "M">>, <<"?", "?">> }}
CommitArgs == {None} \cup {Str(c) : c \in CommitIds}

NoGit ==
    [installed |-> TRUE, toplevel |-> Failed, head |-> Failed, log |-> Failed,
     status |-> Failed, difftree |-> <<>>, blame |-> Failed]
NoArgs ==
    [root |-> <<>>, tracked_only |-> FALSE, commits |-> None, filename |-> <<>>,
     extra_data |-> None, commit |-> None, master |-> <<>>, by_default |-> FALSE]

(***************************************************************************)
(* State: the call in progress (fn, args), the commands it started (cmds), *)
(* what it returned (result), the commits list object of a call of         *)
(* modified_lines_for_pr as the call left it (commits_obj), and the list   *)
(* object that is the default of modified_lines_for_pr's commits parameter *)
(* (pr_default), which lives as long as the module.                        *)
(***************************************************************************)
VARIABLES pc, fn, args, cmds, result, commits_obj, pr_default
vars == <<pc, fn, args, cmds, result, commits_obj, pr_default>>

Init ==
    /\ pc = "idle"
    /\ fn = "none"
    /\ args = NoArgs
    /\ cmds = <<>>
    /\ result = None
    /\ commits_obj = <<>>
    /\ pr_default = <<>>

Returns(name, a, r) ==
    /\ pc' = "returned"
    /\ fn' = name
    /\ args' = a
    /\ cmds' = r.cmds
    /\ result' = r.ret

RepositoryRoot ==
    /\ pc = "idle"
    /\ \E installed \in BOOLEAN, reply \in ToplevelReplies :
         Returns("repository_root", NoArgs,
                 repository_root([NoGit EXCEPT !.installed = installed, !.toplevel = reply]))
    /\ UNCHANGED <<commits_obj, pr_default>>

LastCommit ==
    /\ pc = "idle"
    /\ \E installed \in BOOLEAN, reply \in HeadReplies :
         Returns("last_commit", NoArgs,
                 last_commit([NoGit EXCEPT !.installed = installed, !.head = reply]))
    /\ UNCHANGED <<commits_obj, pr_default>>

CommitsHeadToMain ==
    /\ pc = "idle"
    /\ \E installed \in BOOLEAN, reply \in LogReplies, master \in Masters :
         Returns("commits_head_to_main", [NoArgs EXCEPT !.master = master],
                 commits_head_to_main(master,
                     [NoGit EXCEPT !.installed = installed, !.log = reply]))
    /\ UNCHANGED <<commits_obj, pr_default>>

ModifiedFiles ==
    /\ pc = "idle"
    /\ \E installed \in BOOLEAN, root \in Roots, tracked_only \in BOOLEAN,
          commits \in CommitsArgs :
       \E status \in (IF CommitsNamed(commits) = {} THEN StatusReplies ELSE {Failed}),
          difftree \in [CommitsNamed(commits) -> DiffTreeReplies] :
         Returns("modified_files",
                 [NoArgs EXCEPT !.root = root, !.tracked_only = tracked_only,
                                !.commits = commits],
                 modified_files(root, tracked_only, commits,
                     [NoGit EXCEPT !.installed = installed, !.status = status,
                                   !.difftree = difftree]))
    /\ UNCHANGED <<commits_obj, pr_default>>

ModifiedLines ==
    /\ pc = "idle"
    /\ \E installed \in BOOLEAN, blame \in BlameReplies,
          filename \in FileNames, extra_data \in StatusArgs, commit \in CommitArgs :
         Returns("modified_lines",
                 [NoArgs EXCEPT !.filename = filename, !.extra_data = extra_data,
                                !.commit = commit],
                 modified_lines(filename, extra_data, commit,
                     [NoGit EXCEPT !.installed = installed, !.blame = blame]))
    /\ UNCHANGED <<commits_obj, pr_default>>

\* commits is the caller's list, or the default object when the caller
\* passes none
ModifiedLinesForPr ==
    /\ pc = "idle"
    /\ \E installed \in BOOLEAN, blame \in BlameReplies,
          filename \in {Text_f}, extra_data \in StatusArgs, by_default \in BOOLEAN,
          given \in SeqsUpTo(CommitIds, MaxCommits) :
         LET commits == IF by_default THEN pr_default ELSE given
             r == modified_lines_for_pr(filename, extra_data, commits,
                     [NoGit EXCEPT !.installed = installed, !.blame = blame])
         IN /\ by_default => given = <<>>
            /\ Returns("modified_lines_for_pr",
                       [NoArgs EXCEPT !.filename = filename, !.extra_data = extra_data,
                                      !.commits = List(commits), !.by_default = by_default],
                       r)
            /\ commits_obj' = r.commits
            /\ pr_default' = IF by_default THEN r.commits ELSE pr_default

\* the caller takes the result
Return ==
    /\ pc = "returned"
    /\ pc' = "idle"
    /\ fn' = "none"
    /\ args' = NoArgs
    /\ cmds' = <<>>
    /\ result' = None
    /\ commits_obj' = <<>>
    /\ UNCHANGED pr_default

Next ==
    \/ RepositoryRoot
    \/ LastCommit
    \/ CommitsHeadToMain
    \/ ModifiedFiles
    \/ ModifiedLines
    \/ ModifiedLinesForPr
    \/ Return

Spec == Init /\ [][Next]_vars

(***************************************************************************)
(* Properties.  Each is about the state a call leaves when it returns.     *)
(***************************************************************************)
Returned(name) == pc = "returned" /\ fn = name
Lookups == {"repository_root", "last_commit", "commits_head_to_main"}
ThreeModifications == { <<"M", " ">>, <<" ", "M">>, <<"M", "M">> }
AddedOrModified == { <<"A">>, <<"M">> }
ClosedStatusSet ==
    { <<"M", " ">>, <<" ", "M">>, <<"A", " ">>, <<"A", "M">>, <<"M", "M">>, <<"?", "?">> }

StatusIsModification == args.extra_data.kind = "str" /\ args.extra_data.val \in ThreeModifications
StatusIsAddition == args.extra_data.kind = "str" /\ args.extra_data.val \notin ThreeModifications
CommitsGiven == args.commits.kind = "list" /\ args.commits.val # <<>>

Attributed(es, rev) == SelectSeq(es, LAMBDA e : e.rev = rev)
OrigOf(es) == [i \in 1..Len(es) |-> es[i].orig]
FinalOf(es) == [i \in 1..Len(es) |-> es[i].final]
TargetRev == IF args.commit.kind = "None" THEN Zero ELSE args.commit.val
StrictlyAscending(ns) == \A i \in 1..Len(ns) : \A j \in 1..Len(ns) : i < j => ns[i] < ns[j]
KeyOf(path) == join(args.root, _remove_filename_quotes(path))
Largest(S) == CHOOSE x \in S : \A y \in S : y <= x

\* C1: for repository_root, last_commit and commits_head_to_main every failed
\* invocation of git (exit status not 0, or no executable) is swallowed: the
\* call returns None, respectively the empty list, and raises nothing.
C1_LookupsSwallowEveryFailure ==
    (pc = "returned" /\ fn \in Lookups /\ cmds[1].reply.rc # 0)
      => result = (IF fn = "commits_head_to_main" THEN List(<<>>) ELSE None)

\* C2: commits_head_to_main returns exactly the hashes git log printed, one
\* element each, in log order; for an empty log it returns [], with which
\* modified_files takes the working-tree mode.
C2_CommitsAreTheLoggedHashes ==
    (Returned("commits_head_to_main") /\ cmds[1].reply.rc = 0)
      => /\ result = List(cmds[1].reply.data)
         /\ cmds[1].reply.data = <<>> => ~CommitsMode(result)

\* C3: modified_files with a root that is not absolute fails with the
\* precondition failure whatever tracked_only and commits are, before any git
\* command is started and without returning a map.
C3_RelativeRootFailsFast ==
    (Returned("modified_files") /\ (args.root = <<>> \/ args.root[1] # "/"))
      => result = Raise("AssertionError") /\ cmds = <<>>
C3_Witness ==
    /\ Returned("modified_files")
    /\ args.root = <<"r", "/", "p">>
    /\ args.tracked_only
    /\ args.commits = List(<<ShaA, ShaB>>)
    /\ result = Raise("AssertionError")

\* C4: with a non-empty commits sequence modified_files asks one diff-tree per
\* commit in the given order and never asks status; its result has the union
\* of the per-commit key sets as keys and, for each key, the status of the last
\* commit that reports it; with commits None or empty it asks status and no
\* diff-tree.
DiffKept(es) == {j \in 1..Len(es) : es[j].st \in AddedOrModified}
DiffKeys(es) == {KeyOf(es[j].path) : j \in DiffKept(es)}
C4_CommitsMergedInOrder ==
    (Returned("modified_files") /\ args.root # <<>> /\ args.root[1] = "/") =>
      IF CommitsGiven
      THEN /\ Len(cmds) <= Len(args.commits.val)
           /\ \A i \in 1..Len(cmds) :
                cmds[i].cmd = "diff-tree" /\ cmds[i].arg = args.commits.val[i]
           /\ result.kind = "dict" =>
                /\ Len(cmds) = Len(args.commits.val)
                /\ DOMAIN result.val = UNION {DiffKeys(cmds[i].reply.data) : i \in 1..Len(cmds)}
                /\ \A k \in DOMAIN result.val :
                     LET i == Largest({h \in 1..Len(cmds) : k \in DiffKeys(cmds[h].reply.data)})
                         es == cmds[i].reply.data
                         j == Largest({h \in DiffKept(es) : KeyOf(es[h].path) = k})
                     IN result.val[k] = es[j].st \o <<" ">>
      ELSE Len(cmds) = 1 /\ cmds[1].cmd = "status"
C4_Witness ==
    /\ Returned("modified_files")
    /\ args.commits = List(<<ShaA, ShaB>>)
    /\ result.kind = "dict"
    /\ cmds[1].reply.data = <<[st |-> <<"A">>, path |-> Text_f]>>
    /\ cmds[2].reply.data = <<[st |-> <<"M">>, path |-> Text_f]>>
    /\ result.val[KeyOf(Text_f)] = <<"M", " ">>

\* C5: modified_lines decides from the status alone, without running blame:
\* [] when the status is None, None exactly when the status is present and not
\* one of 'M ', ' M', 'MM'; for these three the result is a list, never None.
C5_StatusAloneDecides ==
    Returned("modified_lines") =>
      /\ args.extra_data.kind = "None" => result = List(<<>>) /\ cmds = <<>>
      /\ StatusIsAddition => result = None /\ cmds = <<>>
      /\ StatusIsModification =>
           /\ result.kind \in {"list", "raise"}
           /\ result.kind = "raise" => cmds[1].reply.rc # 0
      /\ result.kind = "None" <=> StatusIsAddition
C5_Witness ==
    /\ Returned("modified_lines")
    /\ args.extra_data = Str(<<"A", " ">>)
    /\ args.commit = Str(ShaA)
    /\ result = None
    /\ cmds = <<>>

\* C6: for a status 'M ', ' M' or 'MM' modified_lines returns, as integers and
\* in order of appearance, the line number of every blame entry attributed to
\* the target revision (the commit, or the all-zero id when commit is None)
\* and of no other entry; no entry of the target revision gives [].
C6_LinesOfTargetRevision ==
    (Returned("modified_lines") /\ StatusIsModification /\ cmds[1].reply.rc = 0)
      => result = List(OrigOf(Attributed(cmds[1].reply.data, TargetRev)))
C6_Witness ==
    /\ Returned("modified_lines")
    /\ StatusIsModification
    /\ args.commit = None
    /\ cmds[1].reply.rc = 0
    /\ \E i \in 1..Len(cmds[1].reply.data) : cmds[1].reply.data[i].rev # Zero
    /\ result = List(<<47>>)

\* C7: for a modified file the list modified_lines returns is
\* strictly ascending and its elements are the line numbers, in the file's
\* current content, of the lines the target revision last touched, for
\* commit None and for an explicit commit.
C7_CurrentLinesOfAnyRevision ==
    (Returned("modified_lines") /\ StatusIsModification /\ cmds[1].reply.rc = 0)
      => /\ StrictlyAscending(result.val)
         /\ result = List(FinalOf(Attributed(cmds[1].reply.data, TargetRev)))

C9_AdditionGivesNone ==
    (Returned("modified_lines_for_pr") /\ StatusIsAddition /\ args.commits.val # <<>>)
      => result = None

\* C10: every value of the map modified_files returns is one of 'M ', ' M',
\* 'A ', 'AM', 'MM', '??'; with commits every value is 'A ' or 'M '; from the
\* working tree the entries are exactly the status lines with one of these
\* codes ('??' only when tracked_only is false), each with its code, and a
\* line with another status (deleted, renamed) gives no entry.
StatusAllowed(tracked_only) ==
    IF tracked_only THEN ClosedStatusSet \ { <<"?", "?">> } ELSE ClosedStatusSet
StatusKept(es) == {j \in 1..Len(es) : es[j].xy \in StatusAllowed(args.tracked_only)}
C10_StatusCodesClosed ==
    (Returned("modified_files") /\ result.kind = "dict") =>
      /\ \A k \in DOMAIN result.val : result.val[k] \in ClosedStatusSet
      /\ IF CommitsGiven
         THEN \A k \in DOMAIN result.val : result.val[k] \in { <<"A", " ">>, <<"M", " ">> }
         ELSE LET es == cmds[1].reply.data IN
              /\ DOMAIN result.val = {KeyOf(es[j].path) : j \in StatusKept(es)}
              /\ \A k \in DOMAIN result.val :
                   result.val[k] = es[Largest({j \in StatusKept(es) : KeyOf(es[j].path) = k})].xy
              /\ args.tracked_only => \A k \in DOMAIN result.val : result.val[k] # <<"?", "?">>
C10_Witness ==
    /\ Returned("modified_files")
    /\ ~CommitsGiven
    /\ ~args.tracked_only
    /\ result.kind = "dict"
    /\ cmds[1].reply.data = <<[xy |-> <<"R", " ">>, path |-> Renamed_g_f],
                              [xy |-> <<"?", "?">>, path |-> Text_f]>>
    /\ DOMAIN result.val = {KeyOf(Text_f)}
    /\ result.val[KeyOf(Text_f)] = <<"?", "?">>

====
